---- MODULE Spec2Model ----
(***************************************************************************)
(* A model of the karakeep shim: the response-normalization functions of   *)
(* parser.js (src/server.js lines 28-391) and the route handler of         *)
(* router.js (src/unnamed/part_001).                                       *)
(*                                                                         *)
(* Text.  A JavaScript string is a sequence of characters.  A character is *)
(* a TLA+ string: either a single punctuation character, or a word atom    *)
(* that stands for an indivisible run of letters or digits ("items",       *)
(* "Bookmark_ID", "1").                                                    *)
(*                                                                         *)
(* Values.  A JavaScript value is a record [t, v]: t is its type tag and   *)
(* v its content (a text for the primitives, a sequence of values for an   *)
(* array, a sequence of [k, x] properties in enumeration order for an      *)
(* object).                                                                *)
(***************************************************************************)
EXTENDS Integers, Sequences, FiniteSets, TLC

LBRACE == "{"
RBRACE == "}"
LBRACK == "["
RBRACK == "]"
COLON == ":"
COMMA == ","
QUOTE == "\""
BSLASH == "\\"
SPACE == " "
NEWLINE == "\n"
TAB == "\t"
APOSTROPHE == "'"
UNDERSCORE == "_"
LT == "<"
GT == ">"
SLASH == "/"
HYPHEN == "-"

\* \s
WhiteSpace == {SPACE, NEWLINE, TAB}
\* The characters of the model that \w does not match
NonWordChars ==
  {LBRACE, RBRACE, LBRACK, RBRACK, COLON, COMMA, QUOTE, BSLASH, SPACE, NEWLINE, TAB,
   APOSTROPHE, LT, GT, SLASH, HYPHEN}

\* The lower-case form of a character or word, for the /i matches
Lower(a) ==
  CASE a \in {"Next", "NEXT"} -> "next"
    [] a \in {"Cursor", "CURSOR"} -> "cursor"
    [] a \in {"Tags", "TAGS"} -> "tags"
    [] a \in {"Tag", "TAG"} -> "tag"
    [] a \in {"Search", "SEARCH"} -> "search"
    [] a \in {"Bookmarks", "BOOKMARKS"} -> "bookmarks"
    [] a \in {"Post", "POST"} -> "post"
    [] a \in {"Get", "GET"} -> "get"
    [] a = "D" -> "d"
    [] a = "E" -> "e"
    [] a = "T" -> "t"
    [] a = "A" -> "a"
    [] a = "I" -> "i"
    [] a = "L" -> "l"
    [] a = "S" -> "s"
    [] OTHER -> a

\* The atoms JSON.parse reads as numbers.
NumAtoms == {"0", "1", "2", "5", "7"}

Undef == [t |-> "undef", v |-> <<>>]
Null == [t |-> "null", v |-> <<>>]
Str(s) == [t |-> "str", v |-> s]
Num(d) == [t |-> "num", v |-> <<d>>]
Bool(b) == [t |-> "bool", v |-> <<IF b THEN "true" ELSE "false">>]
Arr(els) == [t |-> "arr", v |-> els]
Obj(props) == [t |-> "obj", v |-> props]
Prop(k, x) == [k |-> k, x |-> x]

\* F applied to the value of v, computed once (a local const binding)
Let1(v, F(_)) == CHOOSE y \in {F(x) : x \in {v}} : TRUE

\* typeof x === "string", typeof x === "boolean"
IsString(x) == x.t = "str"
IsBoolean(x) == x.t = "bool"
\* x && typeof x === "object": a non-null object, arrays included
IsObject(x) == x.t \in {"obj", "arr"}
\* x == null
IsNullish(x) == x.t \in {"undef", "null"}
\* Array.isArray(x)
IsArray(x) == x.t = "arr"

\* ToBoolean
Truthy(x) ==
  CASE x.t \in {"undef", "null"} -> FALSE
    [] x.t = "str" -> x.v /= <<>>
    [] x.t = "num" -> x.v /= <<"0">>
    [] x.t = "bool" -> x.v = <<"true">>
    [] OTHER -> TRUE

\* The keys an array has for its elements
IndexKeys == <<"0", "1", "2", "3">>
IsIndexKey(k) == Len(k) = 1 /\ \E i \in 1..Len(IndexKeys) : IndexKeys[i] = k[1]
IndexOfKey(k) == CHOOSE i \in 1..Len(IndexKeys) : IndexKeys[i] = k[1]

\* An array's own enumerable properties, as Object.assign and spread see them
ArrayProps(els) == [i \in 1..Len(els) |-> Prop(<<IndexKeys[i]>>, els[i])]

\* The own enumerable properties of a value
OwnProps(x) ==
  CASE x.t = "obj" -> x.v
    [] x.t = "arr" -> ArrayProps(x.v)
    [] OTHER -> <<>>

HasKey(props, k) == \E i \in 1..Len(props) : props[i].k = k
KeyPos(props, k) == CHOOSE i \in 1..Len(props) : props[i].k = k

\* Object.prototype.hasOwnProperty.call(x, k), for the keys of the model
HasOwn(x, k) == HasKey(OwnProps(x), k)

\* x.k (undefined when absent)
Get(x, k) ==
  LET props == OwnProps(x)
  IN IF HasKey(props, k) THEN props[KeyPos(props, k)].x ELSE Undef

\* The position a new property takes in an object's enumeration order:
\* integer-like keys come first, ascending, then the others in insertion order.
InsertPos(props, k) ==
  IF IsIndexKey(k)
  THEN 1 + Cardinality({i \in 1..Len(props) :
                          IsIndexKey(props[i].k) /\ IndexOfKey(props[i].k) < IndexOfKey(k)})
  ELSE Len(props) + 1

\* obj[k] = x on a property list
SetProp(props, k, x) ==
  IF HasKey(props, k)
  THEN [props EXCEPT ![KeyPos(props, k)] = Prop(k, x)]
  ELSE LET p == InsertPos(props, k)
       IN SubSeq(props, 1, p - 1) \o <<Prop(k, x)>> \o SubSeq(props, p, Len(props))

RECURSIVE AssignProps(_, _)
\* Object.assign(target, source) / { ...target, ...source } on property lists
AssignProps(target, source) ==
  IF source = <<>> THEN target
  ELSE AssignProps(SetProp(target, source[1].k, source[1].x), Tail(source))

(***************************************************************************)
(* JSON.parse, as a recursive-descent reader of a text.                    *)
(***************************************************************************)
ParseFail == [ok |-> FALSE, val |-> Undef, nxt |-> 0]
ParseOk(x, n) == [ok |-> TRUE, val |-> x, nxt |-> n]

RECURSIVE SkipWS(_, _)
SkipWS(s, i) ==
  IF i <= Len(s) /\ s[i] \in WhiteSpace THEN SkipWS(s, i + 1) ELSE i

\* The first position of the run of backslashes that ends at p
RunStart(s, p) ==
  CHOOSE a \in 1..p : (\A j \in a..p : s[j] = BSLASH) /\ (a = 1 \/ s[a - 1] /= BSLASH)

\* The backslashes from position i on that introduce an escape: the 1st, 3rd, ...
\* of each run
Introducers(s, i) ==
  {p \in i..Len(s) : s[p] = BSLASH /\ (p - RunStart(s, p)) % 2 = 0}

RECURSIVE Unescaped(_, _, _, _)
\* The characters a string literal's body s[lo..hi] stands for
Unescaped(s, lo, hi, intro) ==
  IF lo > hi THEN <<>>
  ELSE IF lo = hi
       THEN IF lo \in intro THEN <<>>
            ELSE IF (lo - 1) \in intro /\ s[lo] = "n" THEN <<NEWLINE>>
            ELSE <<s[lo]>>
  ELSE LET mid == (lo + hi) \div 2
       IN Unescaped(s, lo, mid, intro) \o Unescaped(s, mid + 1, hi, intro)

\* The string literal from i on, given its closing quote
ParseStrTo(s, i, intro, close) ==
  IF \A p \in i..(close - 1) :
        /\ (p \in intro => s[p + 1] \in {QUOTE, BSLASH, "n"})
        /\ s[p] /= NEWLINE
  THEN ParseOk(Str(Unescaped(s, i, close - 1, intro)), close + 1)
  ELSE ParseFail

\* The string literal from i on, given the unescaped quotes from i on
ParseStrIn(s, i, intro, closers) ==
  IF closers = {} THEN ParseFail
  ELSE ParseStrTo(s, i, intro, CHOOSE p \in closers : \A q \in closers : p <= q)

\* The string literal whose opening quote is at i - 1
ParseStr(s, i) ==
  Let1(Introducers(s, i),
       LAMBDA intro :
         Let1({p \in i..Len(s) : s[p] = QUOTE /\ (p - 1) \notin intro},
              LAMBDA closers : ParseStrIn(s, i, intro, closers)))

RECURSIVE ParseValue(_, _)
RECURSIVE ParseArrItems(_, _, _)
RECURSIVE ParseObjItems(_, _, _)

\* An array's items from i on, r being the item read at i
ArrAfterItem(s, acc, r) ==
  IF ~r.ok THEN ParseFail
  ELSE Let1(SkipWS(s, r.nxt),
            LAMBDA k :
              IF k > Len(s) THEN ParseFail
              ELSE IF s[k] = COMMA THEN ParseArrItems(s, k + 1, Append(acc, r.val))
              ELSE IF s[k] = RBRACK THEN ParseOk(Arr(Append(acc, r.val)), k + 1)
              ELSE ParseFail)

ParseArrItems(s, i, acc) ==
  Let1(ParseValue(s, i), LAMBDA r : ArrAfterItem(s, acc, r))

\* An object's members, r being the value read for key
ObjAfterValue(s, acc, key, r) ==
  IF ~r.ok THEN ParseFail
  ELSE Let1(SkipWS(s, r.nxt),
            LAMBDA k :
              IF k > Len(s) THEN ParseFail
              ELSE IF s[k] = COMMA
                   THEN ParseObjItems(s, k + 1, SetProp(acc, key.val.v, r.val))
              ELSE IF s[k] = RBRACE
                   THEN ParseOk(Obj(SetProp(acc, key.val.v, r.val)), k + 1)
              ELSE ParseFail)

\* An object's members, key being the member name read
ObjAfterKey(s, acc, key) ==
  IF ~key.ok THEN ParseFail
  ELSE Let1(SkipWS(s, key.nxt),
            LAMBDA c :
              IF c > Len(s) \/ s[c] /= COLON THEN ParseFail
              ELSE Let1(ParseValue(s, c + 1), LAMBDA r : ObjAfterValue(s, acc, key, r)))

ParseObjItems(s, i, acc) ==
  Let1(SkipWS(s, i),
       LAMBDA j :
         IF j > Len(s) \/ s[j] /= QUOTE THEN ParseFail
         ELSE Let1(ParseStr(s, j + 1), LAMBDA key : ObjAfterKey(s, acc, key)))

\* The value that starts at j, the first position that is not white space
ParseValueAt(s, j) ==
  IF j > Len(s) THEN ParseFail
  ELSE IF s[j] = LBRACE
       THEN Let1(SkipWS(s, j + 1),
                 LAMBDA k :
                   IF k <= Len(s) /\ s[k] = RBRACE THEN ParseOk(Obj(<<>>), k + 1)
                   ELSE ParseObjItems(s, j + 1, <<>>))
  ELSE IF s[j] = LBRACK
       THEN Let1(SkipWS(s, j + 1),
                 LAMBDA k :
                   IF k <= Len(s) /\ s[k] = RBRACK THEN ParseOk(Arr(<<>>), k + 1)
                   ELSE ParseArrItems(s, j + 1, <<>>))
  ELSE IF s[j] = QUOTE THEN ParseStr(s, j + 1)
  ELSE IF s[j] \in NumAtoms THEN ParseOk(Num(s[j]), j + 1)
  ELSE IF s[j] = "true" THEN ParseOk(Bool(TRUE), j + 1)
  ELSE IF s[j] = "false" THEN ParseOk(Bool(FALSE), j + 1)
  ELSE IF s[j] = "null" THEN ParseOk(Null, j + 1)
  ELSE ParseFail

ParseValue(s, i) == Let1(SkipWS(s, i), LAMBDA j : ParseValueAt(s, j))

\* JSON.parse(s): the whole text must be one value
JSONParse(s) ==
  Let1(ParseValue(s, 1),
       LAMBDA r : IF r.ok /\ SkipWS(s, r.nxt) > Len(s) THEN r ELSE ParseFail)

RECURSIVE JSString(_)
RECURSIVE JoinElements(_)
\* Array.prototype.join(","): null and undefined elements give the empty text
JoinElements(els) ==
  IF els = <<>> THEN <<>>
  ELSE (IF IsNullish(els[1]) THEN <<>> ELSE JSString(els[1]))
       \o (IF Len(els) > 1 THEN <<COMMA>> \o JoinElements(Tail(els)) ELSE <<>>)

\* String(x)
JSString(x) ==
  CASE x.t = "null" -> <<"null">>
    [] x.t = "undef" -> <<"undefined">>
    [] x.t = "obj" -> <<LBRACK, "object", SPACE, "Object", RBRACK>>
    [] x.t = "arr" -> JoinElements(x.v)
    [] OTHER -> x.v

\* s.trim() === ""
IsBlank(s) == \A i \in 1..Len(s) : s[i] \in WhiteSpace

RECURSIVE Escape(_)
\* The escapes JSON.stringify writes inside a string literal
Escape(s) ==
  IF s = <<>> THEN <<>>
  ELSE IF Len(s) = 1
       THEN CASE s[1] = QUOTE -> <<BSLASH, QUOTE>>
              [] s[1] = BSLASH -> <<BSLASH, BSLASH>>
              [] s[1] = NEWLINE -> <<BSLASH, "n">>
              [] OTHER -> s
  ELSE LET mid == Len(s) \div 2
       IN Escape(SubSeq(s, 1, mid)) \o Escape(SubSeq(s, mid + 1, Len(s)))

\* JSON.stringify of a string
Quoted(s) == <<QUOTE>> \o Escape(s) \o <<QUOTE>>

RECURSIVE JSONStringify(_)
RECURSIVE StringifyElements(_)
RECURSIVE StringifyProps(_)
StringifyElements(els) ==
  IF els = <<>> THEN <<>>
  ELSE JSONStringify(els[1])
       \o (IF Len(els) > 1 THEN <<COMMA>> \o StringifyElements(Tail(els)) ELSE <<>>)

StringifyProps(props) ==
  IF props = <<>> THEN <<>>
  ELSE Quoted(props[1].k) \o <<COLON>> \o JSONStringify(props[1].x)
       \o (IF Len(props) > 1 THEN <<COMMA>> \o StringifyProps(Tail(props)) ELSE <<>>)

\* JSON.stringify(x), for the values JSON can carry
JSONStringify(x) ==
  CASE x.t = "obj" -> <<LBRACE>> \o StringifyProps(x.v) \o <<RBRACE>>
    [] x.t = "arr" -> <<LBRACK>> \o StringifyElements(x.v) \o <<RBRACK>>
    [] x.t = "str" -> Quoted(x.v)
    [] x.t = "undef" -> <<"null">>
    [] x.t = "null" -> <<"null">>
    [] OTHER -> x.v

(***************************************************************************)
(* parser.js                                                               *)
(***************************************************************************)
tryParseJSON(text) ==
  IF IsNullish(text) THEN Null
  ELSE IF ~IsString(text) THEN Null
  ELSE Let1(JSONParse(text.v), LAMBDA r : IF r.ok THEN r.val ELSE Null)

maxDepth == 5

RECURSIVE unwrapLoop(_, _)
\* The loop of unwrapDeepJSONString from iteration i on, with out as it stands
unwrapLoop(out, i) ==
  IF i >= maxDepth THEN [parsed |-> Null, text |-> out]
  ELSE Let1(tryParseJSON(out),
            LAMBDA parsed :
              IF IsString(parsed) THEN unwrapLoop(parsed, i + 1)
              ELSE [parsed |-> parsed, text |-> out])

unwrapDeepJSONString(raw) == unwrapLoop(raw, 0)

Positions(s, c) == {i \in 1..Len(s) : s[i] = c}
Min(S) == CHOOSE m \in S : \A n \in S : m <= n
Max(S) == CHOOSE m \in S : \A n \in S : m >= n

\* text.match(/<open>[\s\S]*<close>/): from the first opener to the last closer
\* after it; [matched, text]
GreedyMatch(s, open, close) ==
  IF Positions(s, open) /= {} /\ Positions(s, close) /= {}
     /\ Min(Positions(s, open)) < Max(Positions(s, close))
  THEN [matched |-> TRUE,
        text |-> SubSeq(s, Min(Positions(s, open)), Max(Positions(s, close)))]
  ELSE [matched |-> FALSE, text |-> <<>>]

\* The slow path of extractFirstJSONObjectFromText
rescueByMatch(s) ==
  Let1(GreedyMatch(s, LBRACE, RBRACE),
       LAMBDA braces :
         Let1(IF braces.matched THEN braces ELSE GreedyMatch(s, LBRACK, RBRACK),
              LAMBDA objMatch :
                IF objMatch.matched
                THEN Let1(tryParseJSON(Str(objMatch.text)),
                          LAMBDA maybe : IF IsObject(maybe) THEN maybe ELSE Null)
                ELSE Null))

extractFirstJSONObjectFromText(text) ==
  IF ~IsString(text) THEN Null
  ELSE Let1(tryParseJSON(text),
            LAMBDA direct : IF IsObject(direct) THEN direct ELSE rescueByMatch(text.v))

\* The unwrap-then-rescue of a string found in result or in a document:
\* the container it yields, or null
unwrapThenRescue(str) ==
  Let1(unwrapDeepJSONString(str),
       LAMBDA u : IF IsObject(u.parsed) THEN u.parsed
                  ELSE extractFirstJSONObjectFromText(u.text))

\* The list a source's document stands for
docsOf(s) ==
  LET d == Get(s, <<"document">>)
  IN IF IsArray(d) THEN d.v ELSE IF Truthy(d) THEN <<d>> ELSE <<>>

\* What one document gives: an object, or null to go on
docHit(doc) ==
  IF IsNullish(doc) THEN Null
  ELSE IF IsObject(doc) THEN doc
  ELSE IF IsString(doc) THEN unwrapThenRescue(doc)
  ELSE Null

RECURSIVE scanDocsStopOnMiss(_)
\* Variant of scanDocs: a string document that yields nothing ends the scan
scanDocsStopOnMiss(docs) ==
  IF docs = <<>> THEN Null
  ELSE Let1(docHit(docs[1]),
            LAMBDA hit : IF IsObject(hit) THEN hit
                         ELSE IF IsString(docs[1]) THEN Null
                         ELSE scanDocsStopOnMiss(Tail(docs)))

RECURSIVE scanDocs(_)
\* The inner loop over docs: the first hit, or null when the loop ends
scanDocs(docs) ==
  IF docs = <<>> THEN Null
  ELSE Let1(docHit(docs[1]),
            LAMBDA hit : IF IsObject(hit) THEN hit ELSE scanDocs(Tail(docs)))

RECURSIVE scanSources(_)
\* The outer loop over sources
scanSources(sources) ==
  IF sources = <<>> THEN Null
  ELSE Let1(scanDocs(docsOf(sources[1])),
            LAMBDA hit : IF IsObject(hit) THEN hit ELSE scanSources(Tail(sources)))

\* Step 1 of parseToolResponse: what a non-empty result returns, or null
fromResult(res) ==
  IF ~IsNullish(res) /\ ~IsBlank(JSString(res))
  THEN IF IsString(res) THEN unwrapThenRescue(res)
       ELSE IF IsObject(res) THEN res
       ELSE Null
  ELSE Null

\* Steps 2 and 3 of parseToolResponse
fromSources(toolResp) ==
  Let1(Get(toolResp, <<"sources">>),
       LAMBDA srcs :
         Let1(scanSources(IF IsArray(srcs) THEN srcs.v ELSE <<>>),
              LAMBDA r2 :
                IF IsObject(r2) THEN r2
                ELSE extractFirstJSONObjectFromText(Str(JSString(toolResp)))))

parseToolResponse(toolResp) ==
  IF IsNullish(toolResp) THEN Null
  ELSE IF IsString(toolResp) THEN extractFirstJSONObjectFromText(toolResp)
  ELSE Let1(fromResult(Get(toolResp, <<"result">>)),
            LAMBDA r1 : IF IsObject(r1) THEN r1 ELSE fromSources(toolResp))

(***************************************************************************)
(* stripDebugBlocks.  The tag name is spelled letter by letter.            *)
(***************************************************************************)
DetailsWord == <<"d", "e", "t", "a", "i", "l", "s">>

\* s has the letters of "details", in either case, from p on
WordAt(s, p) ==
  p + 6 <= Len(s) /\ \A i \in 1..7 : Lower(s[p + i - 1]) = DetailsWord[i]

\* <\/details> starts at r
CloseAt(s, r) ==
  r + 9 <= Len(s) /\ s[r] = LT /\ s[r + 1] = SLASH /\ WordAt(s, r + 2) /\ s[r + 9] = GT

\* The end of the opening tag <details[^>]*> that starts at p, or 0
OpenEnd(s, p) ==
  IF s[p] = LT /\ WordAt(s, p + 1) /\ (\E i \in (p + 8)..Len(s) : s[i] = GT)
  THEN Min({i \in (p + 8)..Len(s) : s[i] = GT})
  ELSE 0

\* The last position of the match of the whole pattern that starts at p, or 0
BlockEnd(s, p) ==
  Let1(OpenEnd(s, p),
       LAMBDA q :
         IF q = 0 \/ ~(\E r \in (q + 1)..Len(s) : CloseAt(s, r)) THEN 0
         ELSE Min({r \in (q + 1)..Len(s) : CloseAt(s, r)}) + 9)

RECURSIVE stripFrom(_, _)
\* The global replace from position from on: leftmost match first, the scan
\* going on after the match
stripFrom(s, from) ==
  Let1({p \in from..Len(s) : s[p] = LT /\ BlockEnd(s, p) /= 0},
       LAMBDA starts :
         IF starts = {} THEN SubSeq(s, from, Len(s))
         ELSE SubSeq(s, from, Min(starts) - 1) \o stripFrom(s, BlockEnd(s, Min(starts)) + 1))

stripDebugBlocks(html) == Str(stripFrom(JSString(html), 1))

(***************************************************************************)
(* parseKVBlocks and input2JSON                                            *)
(***************************************************************************)
\* s.trim()
Trim(s) ==
  IF IsBlank(s) THEN <<>>
  ELSE SubSeq(s, Min({i \in 1..Len(s) : s[i] \notin WhiteSpace}),
                 Max({i \in 1..Len(s) : s[i] \notin WhiteSpace}))

\* s without its leading white space
DropLeadingWS(s) ==
  IF IsBlank(s) THEN <<>>
  ELSE SubSeq(s, Min({i \in 1..Len(s) : s[i] \notin WhiteSpace}), Len(s))

RECURSIVE SplitOn(_, _)
\* s.split(c)
SplitOn(s, c) ==
  IF Positions(s, c) = {} THEN <<s>>
  ELSE <<SubSeq(s, 1, Min(Positions(s, c)) - 1)>>
       \o SplitOn(SubSeq(s, Min(Positions(s, c)) + 1, Len(s)), c)

\* rawLine.match(/^(\s*)([^:]+):\s*(.*)$/): [matched, indent, key, value], key trimmed
matchKV(line) ==
  IF Positions(line, COLON) = {} \/ Min(Positions(line, COLON)) = 1
  THEN [matched |-> FALSE, indent |-> <<>>, key |-> <<>>, value |-> <<>>]
  ELSE LET c == Min(Positions(line, COLON))
           lead == Len(SubSeq(line, 1, c - 1)) - Len(DropLeadingWS(SubSeq(line, 1, c - 1)))
           n == IF lead = c - 1 THEN c - 2 ELSE lead
       IN [matched |-> TRUE,
           indent |-> SubSeq(line, 1, n),
           key |-> Trim(SubSeq(line, n + 1, c - 1)),
           value |-> DropLeadingWS(SubSeq(line, c + 1, Len(line)))]

\* /^next\s+cursor$/i.test(key)
isNextCursor(key) ==
  /\ Len(key) >= 3
  /\ Lower(key[1]) = "next"
  /\ Lower(key[Len(key)]) = "cursor"
  /\ \A i \in 2..(Len(key) - 1) : key[i] \in WhiteSpace

\* /^tags?$/i.test(key)
isTagsKey(key) == Len(key) = 1 /\ Lower(key[1]) \in {"tag", "tags"}

\* value.replace(/^'+|'+$/g, "")
stripApostrophes(value) ==
  IF \A i \in 1..Len(value) : value[i] = APOSTROPHE THEN <<>>
  ELSE SubSeq(value, Min({i \in 1..Len(value) : value[i] /= APOSTROPHE}),
                     Max({i \in 1..Len(value) : value[i] /= APOSTROPHE}))

RECURSIVE collapseWS(_)
\* key.replace(/\s+/g, "_")
collapseWS(key) ==
  IF key = <<>> THEN <<>>
  ELSE IF key[1] \in WhiteSpace
       THEN <<UNDERSCORE>> \o collapseWS(DropLeadingWS(key))
       ELSE <<key[1]>> \o collapseWS(Tail(key))

\* .replace(/[^\w]/g, "_")
replaceNonWord(key) ==
  [i \in 1..Len(key) |-> IF key[i] \in NonWordChars THEN UNDERSCORE ELSE key[i]]

\* .replace(/^_+|_+$/g, "")
stripUnderscores(key) ==
  IF \A i \in 1..Len(key) : key[i] = UNDERSCORE THEN <<>>
  ELSE SubSeq(key, Min({i \in 1..Len(key) : key[i] /= UNDERSCORE}),
                   Max({i \in 1..Len(key) : key[i] /= UNDERSCORE}))

normKey(key) == stripUnderscores(replaceNonWord(collapseWS(key)))

\* value.split(",").map(t => t.trim()).filter(Boolean)
splitTags(value) ==
  LET parts == SplitOn(value, COMMA)
      kept == {i \in 1..Len(parts) : ~IsBlank(parts[i])}
  IN [n \in 1..Cardinality(kept) |->
        Str(Trim(parts[CHOOSE i \in kept : Cardinality({j \in kept : j <= i}) = n]))]

\* flush(): st is [items, current, cursor, hasMore]
flush(st) ==
  [st EXCEPT !.items = IF Truthy(st.current) /\ Len(st.current.v) > 0
                       THEN Append(st.items, st.current) ELSE st.items,
             !.current = Null]

\* The body of the loop over lines for a line that matched
kvLine(st, m) ==
  IF isNextCursor(m.key)
  THEN LET cursor == Trim(stripApostrophes(m.value))
       IN [st EXCEPT !.cursor = Str(cursor),
                     !.hasMore = Bool(cursor /= <<>> /\ cursor /= <<"0">>)]
  ELSE LET st1 == IF Len(m.indent) = 0 /\ Truthy(st.current) /\ Len(st.current.v) > 0
                  THEN flush(st) ELSE st
           cur == IF Truthy(st1.current) THEN st1.current ELSE Obj(<<>>)
       IN [st1 EXCEPT !.current =
             Obj(SetProp(cur.v, normKey(m.key),
                         IF isTagsKey(m.key) THEN Arr(splitTags(m.value))
                         ELSE Str(Trim(m.value))))]

RECURSIVE kvLines(_, _)
\* The loop over lines
kvLines(lines, st) ==
  IF lines = <<>> THEN st
  ELSE Let1(matchKV(lines[1]),
            LAMBDA m :
              IF ~m.matched THEN kvLines(Tail(lines), st)
              ELSE Let1(kvLine(st, m), LAMBDA st2 : kvLines(Tail(lines), st2)))

parseKVBlocks(text) ==
  Let1(flush(kvLines(SplitOn(JSString(text), NEWLINE),
                     [items |-> <<>>, current |-> Null, cursor |-> Null, hasMore |-> Undef])),
       LAMBDA st :
         IF Len(st.items) > 0 \/ st.cursor /= Null
         THEN Obj(<<Prop(<<"items">>, Arr(st.items)),
                    Prop(<<"cursor">>, st.cursor),
                    Prop(<<"hasMore">>, Bool(Truthy(st.hasMore)))>>)
         ELSE Null)

\* input2JSON past the unwrap: u is what unwrapDeepJSONString returned
input2JSONText(u) ==
  IF IsObject(u.parsed) THEN u.parsed
  ELSE Let1(parseKVBlocks(u.text),
            LAMBDA kv : IF Truthy(kv) THEN kv ELSE Obj(<<Prop(<<"text">>, u.text)>>))

input2JSON(raw) ==
  IF IsNullish(raw) THEN Obj(<<Prop(<<"text">>, Str(<<>>))>>)
  ELSE IF IsObject(raw) THEN raw
  ELSE Let1(unwrapDeepJSONString(Str(JSString(raw))), LAMBDA u : input2JSONText(u))

(***************************************************************************)
(* normalizeKarakeepPayload                                                *)
(***************************************************************************)
BOOKMARK_ID == <<"Bookmark_ID">>

\* The decimal text of a small number, as a template literal writes it
Digits == <<"0", "1", "2", "3", "4", "5", "6", "7", "8", "9">>
NumText(n) == Digits[n + 1]

RECURSIVE AssignMissing(_, _)
\* A merge in which the first write wins
AssignMissing(target, source) ==
  IF source = <<>> THEN target
  ELSE AssignMissing(IF HasKey(target, source[1].k) THEN target
                     ELSE SetProp(target, source[1].k, source[1].x),
                     Tail(source))

RECURSIVE coalesceRowsFirstWins(_, _, _)
\* Variant of coalesceRows: a fragment does not overwrite the fields the record has
coalesceRowsFirstWins(rows, coalesced, current) ==
  IF rows = <<>>
  THEN IF Truthy(current) THEN Append(coalesced, current) ELSE coalesced
  ELSE LET row == rows[1]
       IN IF IsObject(row) /\ HasOwn(row, <<"Bookmark_ID">>)
          THEN coalesceRowsFirstWins(Tail(rows),
                            IF Truthy(current) THEN Append(coalesced, current) ELSE coalesced,
                            Obj(AssignProps(<<>>, OwnProps(row))))
          ELSE IF IsObject(row) /\ Truthy(current)
               THEN coalesceRowsFirstWins(Tail(rows), coalesced,
                                 Obj(AssignMissing(current.v, OwnProps(row))))
               ELSE coalesceRowsFirstWins(Tail(rows), coalesced, current)

RECURSIVE coalesceRowsNoFlush(_, _, _)
\* Variant of coalesceRows: the record being filled when the walk ends is not pushed
coalesceRowsNoFlush(rows, coalesced, current) ==
  IF rows = <<>>
  THEN coalesced
  ELSE LET row == rows[1]
       IN IF IsObject(row) /\ HasOwn(row, <<"Bookmark_ID">>)
          THEN coalesceRowsNoFlush(Tail(rows),
                            IF Truthy(current) THEN Append(coalesced, current) ELSE coalesced,
                            Obj(AssignProps(<<>>, OwnProps(row))))
          ELSE IF IsObject(row) /\ Truthy(current)
               THEN coalesceRowsNoFlush(Tail(rows), coalesced,
                                 Obj(AssignProps(current.v, OwnProps(row))))
               ELSE coalesceRowsNoFlush(Tail(rows), coalesced, current)

RECURSIVE coalesceRows(_, _, _)
\* The loop over rows and the final push: coalesced is a sequence of objects,
\* current is the object being filled or null
coalesceRows(rows, coalesced, current) ==
  IF rows = <<>>
  THEN IF Truthy(current) THEN Append(coalesced, current) ELSE coalesced
  ELSE LET row == rows[1]
       IN IF IsObject(row) /\ HasOwn(row, BOOKMARK_ID)
          THEN coalesceRows(Tail(rows),
                            IF Truthy(current) THEN Append(coalesced, current) ELSE coalesced,
                            Obj(AssignProps(<<>>, OwnProps(row))))
          ELSE IF IsObject(row) /\ Truthy(current)
               THEN coalesceRows(Tail(rows), coalesced,
                                 Obj(AssignProps(current.v, OwnProps(row))))
               ELSE coalesceRows(Tail(rows), coalesced, current)

\* it.Bookmark_ID || `tmp_${byId.size}`
recordKey(it, size) ==
  LET id == Get(it, BOOKMARK_ID)
  IN IF Truthy(id) THEN id ELSE Str(<<"tmp_", NumText(size)>>)

MapHas(byId, id) == \E i \in 1..Len(byId) : byId[i].id = id
MapPos(byId, id) == CHOOSE i \in 1..Len(byId) : byId[i].id = id

RECURSIVE dedupe(_, _)
\* The loop over coalesced: byId is the Map, a sequence of [id, val] entries in
\* insertion order
dedupe(coalesced, byId) ==
  IF coalesced = <<>> THEN byId
  ELSE LET it == coalesced[1]
           id == recordKey(it, Len(byId))
           existing == IF MapHas(byId, id) THEN byId[MapPos(byId, id)].val ELSE Obj(<<>>)
           merged == [id |-> id,
                      val |-> Obj(AssignProps(AssignProps(<<>>, existing.v), it.v))]
       IN dedupe(Tail(coalesced),
                 IF MapHas(byId, id)
                 THEN [byId EXCEPT ![MapPos(byId, id)] = merged]
                 ELSE Append(byId, merged))

\* The names the pagination token goes by, in priority order
tokenNames == << <<"nextCursor">>, <<"next_cursor">>, <<"nextPageToken">>,
                <<"next_page_token">>, <<"cursor">> >>

\* typeof t === "string" && t.trim() !== ""
IsToken(t) == IsString(t) /\ ~IsBlank(t.v)

\* tokenCandidates.find(...) || null
findToken(raw) ==
  LET hits == {i \in 1..Len(tokenNames) : IsToken(Get(raw, tokenNames[i]))}
  IN IF hits = {} THEN Null
     ELSE LET t == Get(raw, tokenNames[Min(hits)])
          IN IF Truthy(t) THEN t ELSE Null

\* Variant of resolveHasMore: has_more is consulted before hasMore
resolveHasMoreSnakeFirst(raw, nextCursor) ==
  IF IsBoolean(Get(raw, <<"has_more">>)) THEN Get(raw, <<"has_more">>)
  ELSE IF IsBoolean(Get(raw, <<"hasMore">>)) THEN Get(raw, <<"hasMore">>)
  ELSE Bool(Truthy(nextCursor) /\ ~IsBlank(JSString(nextCursor)))

resolveHasMore(raw, nextCursor) ==
  IF IsBoolean(Get(raw, <<"hasMore">>)) THEN Get(raw, <<"hasMore">>)
  ELSE IF IsBoolean(Get(raw, <<"has_more">>)) THEN Get(raw, <<"has_more">>)
  ELSE Bool(Truthy(nextCursor) /\ ~IsBlank(JSString(nextCursor)))

PageResult(items, nextCursor, hasMore) ==
  Obj(<< Prop(<<"items">>, Arr(items)),
         Prop(<<"nextCursor">>, nextCursor),
         Prop(<<"hasMore">>, hasMore) >>)

normalizeKarakeepPayload(raw) ==
  IF ~IsObject(raw) THEN PageResult(<<>>, Null, Bool(FALSE))
  ELSE LET rows == IF IsArray(Get(raw, <<"items">>)) THEN Get(raw, <<"items">>).v ELSE <<>>
           coalesced == coalesceRows(rows, <<>>, Null)
           byId == dedupe(coalesced, <<>>)
           nextCursor == findToken(raw)
       IN PageResult([i \in 1..Len(byId) |-> byId[i].val],
                     nextCursor,
                     resolveHasMore(raw, nextCursor))

(***************************************************************************)
(* router.js: the processing of an upstream body                           *)
(***************************************************************************)
\* /search[_-]?bookmarks/i.test(path)
isKaraKeepBookmarksPath(path) ==
  \E i \in 1..Len(path) :
     /\ Lower(path[i]) = "search"
     /\ \/ i + 1 <= Len(path) /\ Lower(path[i + 1]) = "bookmarks"
        \/ /\ i + 2 <= Len(path)
           /\ path[i + 1] \in {UNDERSCORE, HYPHEN}
           /\ Lower(path[i + 2]) = "bookmarks"

\* maybeItems.some((r) => r && typeof r === "object" && "Bookmark_ID" in r)
someBookmarkRow(parsed) ==
  /\ IsArray(Get(parsed, <<"items">>))
  /\ \E i \in 1..Len(Get(parsed, <<"items">>).v) :
       /\ IsObject(Get(parsed, <<"items">>).v[i])
       /\ HasOwn(Get(parsed, <<"items">>).v[i], BOOKMARK_ID)

normalizeToolPayload(parsed, path) ==
  IF IsObject(parsed)
  THEN IF isKaraKeepBookmarksPath(path) \/ someBookmarkRow(parsed)
       THEN normalizeKarakeepPayload(parsed)
       ELSE parsed
  ELSE input2JSON(parsed)

\* The handler's steps 1 and 2: parseToolResponse(cleanText), then
\* input2JSON(cleanText) when that gave a falsy value
extractPayload(cleanText) ==
  Let1(parseToolResponse(cleanText),
       LAMBDA parsed : IF ~Truthy(parsed) THEN input2JSON(cleanText) ELSE parsed)

\* The payload the handler answers with for an upstream body and a route path
routePayload(bodyStr, path) ==
  normalizeToolPayload(extractPayload(stripDebugBlocks(bodyStr)), path)

(***************************************************************************)
(* State                                                                   *)
(***************************************************************************)
VARIABLES
  nRaw,        \* normalizeKarakeepPayload: the argument raw
  nCoalesced,  \* its local coalesced after the walk over rows
  nOut,        \* the value it returned
  nAgain,      \* the value it returned when applied to nOut
  nPhase,      \* "input" | "once" | "twice" | "off"
  tIn,         \* parseToolResponse: the argument toolResp
  tOut,        \* the value it returned
  tPhase,      \* "input" | "done" | "off"
  pIn,         \* how the upstream body was made: [kind, val, k]
  pPath,       \* the route path of the call
  pBody,       \* bodyStr, the text read from upstream
  pClean,      \* cleanText
  pParsed,     \* parsed, after the fallback
  pPayload,    \* payload
  pStage,      \* "body" | "done" | "off"
  now,         \* Date.now()
  pc,          \* per call: "idle" | "fetching" | "reading" | "aborted" | "done"
  timer,       \* per call, the timer of withTimeout: "none" | "pending" | "fired" | "cancelled"
  startedAt,   \* per call: startedAt
  callPath,    \* per call: the route path
  upStatus,    \* per call: r.status once fetch has resolved, else 0
  responses,   \* per call: the responses sent on res, in order
  cause,       \* per call: how its handling ended: "none" | "ok" | "timeout" | "upstream" | "build"
  outbound,    \* per call: the number of calls of fetch
  openapiLoaded, \* health.js: openapiLoaded
  cachedSpec,    \* openapi.js: cachedSpec
  bootPc,        \* the bootstrap: "fetching" | "waiting" | "resolved" | "listening" | "crashed" | "off"
  attempts,      \* the number of calls of fetchOpenAPIOnce
  routes,        \* the dynamic routes mounted on app: <<method, path>>
  listening,     \* app.listen has been called
  everLoaded,    \* some call of fetchOpenAPIOnce has returned a description
  probes         \* the requests clients made and what they got, in order

normVars == <<nRaw, nCoalesced, nOut, nAgain, nPhase>>
toolVars == <<tIn, tOut, tPhase>>
pipeVars == <<pIn, pPath, pBody, pClean, pParsed, pPayload, pStage>>
callVars == <<now, pc, timer, startedAt, callPath, upStatus, responses, cause, outbound>>
startVars ==
  <<openapiLoaded, cachedSpec, bootPc, attempts, routes, listening, everLoaded, probes>>
vars == <<normVars, toolVars, pipeVars, callVars, startVars>>

ToolOff == tIn = Undef /\ tOut = Undef /\ tPhase = "off"

PipeOff ==
  /\ pIn = Undef /\ pPath = <<>> /\ pBody = Undef /\ pClean = Undef
  /\ pParsed = Undef /\ pPayload = Undef /\ pStage = "off"

CallsOff ==
  /\ now = 0 /\ pc = <<>> /\ timer = <<>> /\ startedAt = <<>> /\ callPath = <<>>
  /\ upStatus = <<>> /\ responses = <<>> /\ cause = <<>> /\ outbound = <<>>

StartOff ==
  /\ openapiLoaded = FALSE /\ cachedSpec = Null /\ bootPc = "off" /\ attempts = 0
  /\ routes = {} /\ listening = FALSE /\ everLoaded = FALSE /\ probes = <<>>

(***************************************************************************)
(* normalizeKarakeepPayload applied to bounded inputs                      *)
(***************************************************************************)
MaxRows == 3

S1(a) == Str(<<a>>)
Opt(k, x) == IF x = Undef THEN <<>> ELSE <<Prop(k, x)>>

rowA == Obj(<<Prop(BOOKMARK_ID, S1("1")), Prop(<<"Title">>, S1("A"))>>)
rowB == Obj(<<Prop(BOOKMARK_ID, S1("2")), Prop(<<"Title">>, S1("B"))>>)
rowA2 == Obj(<<Prop(BOOKMARK_ID, S1("1")), Prop(<<"URL">>, S1("u"))>>)
fragT == Obj(<<Prop(<<"Title">>, S1("T")), Prop(<<"Tags">>, Arr(<<S1("t")>>))>>)
rowNoId == Obj(<<Prop(BOOKMARK_ID, Str(<<>>)), Prop(<<"Title">>, S1("N"))>>)
rowTmp == Obj(<<Prop(BOOKMARK_ID, Str(<<"tmp_", "1">>)), Prop(<<"URL">>, S1("x"))>>)
rowText == S1("text")
rowArr == Arr(<<S1("e")>>)

RowSet == {rowA, rowB, rowA2, fragT, rowNoId, rowTmp, rowText, rowArr, Null}
RowLists == UNION {[1..n -> RowSet] : n \in 0..MaxRows}

ItemsInputs == {Obj(<<Prop(<<"items">>, Arr(l))>>) : l \in RowLists}

PageInput(nc, nc2, npt, npt2, c, hm, hm2) ==
  Obj(<<Prop(<<"items">>, Arr(<<rowA, fragT>>))>>
      \o Opt(<<"cursor">>, c) \o Opt(<<"has_more">>, hm2)
      \o Opt(<<"next_page_token">>, npt2) \o Opt(<<"nextPageToken">>, npt)
      \o Opt(<<"next_cursor">>, nc2) \o Opt(<<"hasMore">>, hm)
      \o Opt(<<"nextCursor">>, nc))

PageInputs ==
  {PageInput(nc, nc2, npt, npt2, c, hm, hm2) :
     nc \in {Undef, Str(<<>>), S1("5")},
     nc2 \in {Undef, Str(<<SPACE>>), S1("6")},
     npt \in {Undef, S1("7")},
     npt2 \in {Undef, Num("8"), S1("9")},
     c \in {Undef, Null, S1("0")},
     hm \in {Undef, Bool(TRUE), Bool(FALSE), S1("yes")},
     hm2 \in {Undef, Bool(TRUE), Bool(FALSE)}}

OtherInputs == {Null, Undef, S1("text"), Num("1"), Arr(<<rowA>>)}

NormInputs == ItemsInputs \cup PageInputs \cup OtherInputs

NormOff ==
  /\ nRaw = Undef /\ nCoalesced = <<>> /\ nOut = Undef /\ nAgain = Undef
  /\ nPhase = "off"

InitNorm ==
  /\ ToolOff /\ PipeOff /\ CallsOff /\ StartOff
  /\ nRaw \in NormInputs
  /\ nCoalesced = <<>>
  /\ nOut = Undef
  /\ nAgain = Undef
  /\ nPhase = "input"

\* normalizeKarakeepPayload(raw)
Normalize ==
  /\ nPhase = "input"
  /\ nCoalesced' = IF IsObject(nRaw) /\ IsArray(Get(nRaw, <<"items">>))
                   THEN coalesceRows(Get(nRaw, <<"items">>).v, <<>>, Null)
                   ELSE <<>>
  /\ nOut' = normalizeKarakeepPayload(nRaw)
  /\ nPhase' = "once"
  /\ UNCHANGED <<nRaw, nAgain, toolVars, pipeVars, callVars, startVars>>

\* normalizeKarakeepPayload applied to what it returned
NormalizeAgain ==
  /\ nPhase = "once"
  /\ nAgain' = normalizeKarakeepPayload(nOut)
  /\ nPhase' = "twice"
  /\ UNCHANGED <<nRaw, nCoalesced, nOut, toolVars, pipeVars, callVars, startVars>>

NextNorm == Normalize \/ NormalizeAgain

SpecNorm == InitNorm /\ [][NextNorm]_vars

(***************************************************************************)
(* Properties of normalizeKarakeepPayload                                  *)
(***************************************************************************)
NormDone == nPhase \in {"once", "twice"}
InputRows ==
  IF IsObject(nRaw) /\ IsArray(Get(nRaw, <<"items">>)) THEN Get(nRaw, <<"items">>).v ELSE <<>>
OutItems == Get(nOut, <<"items">>).v

\* An element that carries the identifier field
IsStart(row) == IsObject(row) /\ HasOwn(row, BOOKMARK_ID)
Starts(rows) == {i \in 1..Len(rows) : IsStart(rows[i])}
\* The n-th smallest member of a set of numbers
Nth(K, n) == CHOOSE i \in K : Cardinality({j \in K : j <= i}) = n
\* The last element of the record that starts at i
SpanEnd(rows, i) ==
  LET later == {j \in Starts(rows) : j > i}
  IN IF later = {} THEN Len(rows) ELSE Min(later) - 1
\* The elements of the record starting at i that have field k
Contributors(rows, i, k) ==
  {j \in i..SpanEnd(rows, i) : IsObject(rows[j]) /\ HasOwn(rows[j], k)}
\* The elements that belong to some record: objects at or after the first start
Mergeable(rows) ==
  {j \in 1..Len(rows) : IsObject(rows[j]) /\ \E i \in Starts(rows) : i <= j}
KeepOnly(rows, K) == [n \in 1..Cardinality(K) |-> rows[Nth(K, n)]]

\* C4: walking items in order, every element carrying Bookmark_ID starts a new
\* record and every following element without it is merged into that record; a
\* field takes the value of the last fragment that has it and a field of an
\* earlier fragment alone survives; elements that are not objects or that come
\* before the first identifier contribute nothing to the output.
C4_CoalesceLastWriteWins ==
  NormDone =>
    LET rows == InputRows
    IN /\ Len(nCoalesced) = Cardinality(Starts(rows))
       /\ \A n \in 1..Len(nCoalesced) :
            LET i == Nth(Starts(rows), n)
                rec == nCoalesced[n]
            IN /\ \A p \in 1..Len(rec.v) :
                    /\ Contributors(rows, i, rec.v[p].k) /= {}
                    /\ rec.v[p].x = Get(rows[Max(Contributors(rows, i, rec.v[p].k))], rec.v[p].k)
               /\ \A j \in i..SpanEnd(rows, i) :
                    IsObject(rows[j]) =>
                      \A q \in 1..Len(OwnProps(rows[j])) : HasOwn(rec, OwnProps(rows[j])[q].k)
       /\ IsObject(nRaw) =>
            nOut = normalizeKarakeepPayload(
                     Obj(<<Prop(<<"items">>, Arr(KeepOnly(rows, Mergeable(rows))))>>
                         \o SelectSeq(OwnProps(nRaw), LAMBDA pr : pr.k /= <<"items">>)))

\* C4 witness: a dropped string, then a record whose Title is overwritten by a
\* later fragment while its Bookmark_ID survives
C4_Witness ==
  /\ nPhase = "once"
  /\ InputRows = <<rowText, rowA, fragT>>
  /\ nCoalesced = <<Obj(<<Prop(BOOKMARK_ID, S1("1")), Prop(<<"Title">>, S1("T")),
                         Prop(<<"Tags">>, Arr(<<S1("t")>>))>>)>>
  /\ OutItems = nCoalesced

TruthyIds(recs) ==
  {Get(recs[i], BOOKMARK_ID) : i \in {j \in 1..Len(recs) : Truthy(Get(recs[j], BOOKMARK_ID))}}
NoIdCount(recs) == Cardinality({j \in 1..Len(recs) : ~Truthy(Get(recs[j], BOOKMARK_ID))})

\* C5: in the output each identifier value occurs in exactly one item, and a
\* coalesced record lacking an identifier is never merged with another record:
\* the output holds one item per identifier plus one per record without one.
C5_OneItemPerIdentifier ==
  NormDone =>
    /\ \A i, j \in 1..Len(OutItems) :
         (i < j /\ Truthy(Get(OutItems[i], BOOKMARK_ID)) /\ Truthy(Get(OutItems[j], BOOKMARK_ID)))
           => Get(OutItems[i], BOOKMARK_ID) /= Get(OutItems[j], BOOKMARK_ID)
    /\ Len(OutItems) = Cardinality(TruthyIds(nCoalesced)) + NoIdCount(nCoalesced)

\* C6: nextCursor is null or a non-empty string; hasMore is the input's boolean
\* hasMore, else its boolean has_more, else true exactly when nextCursor is not null.
C6_CursorAndHasMore ==
  NormDone =>
    LET nc == Get(nOut, <<"nextCursor">>)
        hm == Get(nOut, <<"hasMore">>)
    IN /\ nc = Null \/ (IsString(nc) /\ nc.v /= <<>>)
       /\ IsBoolean(hm)
       /\ IF IsBoolean(Get(nRaw, <<"hasMore">>)) THEN hm = Get(nRaw, <<"hasMore">>)
          ELSE IF IsBoolean(Get(nRaw, <<"has_more">>)) THEN hm = Get(nRaw, <<"has_more">>)
          ELSE hm = Bool(nc /= Null)

\* C6 witness: hasMore is not a boolean, has_more is false and a cursor is present
C6_Witness ==
  /\ nPhase = "once"
  /\ Get(nRaw, <<"hasMore">>) = S1("yes")
  /\ Get(nRaw, <<"has_more">>) = Bool(FALSE)
  /\ Get(nRaw, <<"nextCursor">>) = Str(<<>>)
  /\ Get(nRaw, <<"next_cursor">>) = Undef
  /\ Get(nRaw, <<"nextPageToken">>) = S1("7")
  /\ Get(nOut, <<"nextCursor">>) = S1("7")
  /\ Get(nOut, <<"hasMore">>) = Bool(FALSE)

MaxDocs == 2
MaxSources == 2

\* Containers and the texts that carry them
objA == Obj(<<Prop(<<"a">>, Num("1"))>>)
objItems == Obj(<<Prop(<<"items">>, Arr(<<>>))>>)
objR == Obj(<<Prop(<<"r">>, Num("2"))>>)
textA == JSONStringify(objA)
textItems == JSONStringify(objItems)
textR == JSONStringify(objR)
\* A malformed fragment: {"a":
textBroken == SubSeq(textA, 1, 5)

DocSet == {Str(textA), Str(textItems), Str(textBroken), Str(Quoted(textA)), Null, objR}
DocLists == UNION {[1..n -> DocSet] : n \in 0..MaxDocs}
Source(docs) == Obj(<<Prop(<<"document">>, Arr(docs))>>)
SourceSet ==
  {Source(<<Str(textBroken), Str(textA)>>), Source(<<Str(textItems)>>),
   Source(<<Str(textBroken)>>), Obj(<<Prop(<<"document">>, Str(textItems))>>),
   Obj(<<Prop(<<"document">>, Str(<<>>))>>), Null, Obj(<<Prop(<<"other">>, Str(textA))>>)}
SourceLists ==
  {<<Source(l)>> : l \in DocLists} \cup UNION {[1..n -> SourceSet] : n \in 0..MaxSources}

ResultSet ==
  {Undef, Null, Str(<<>>), Str(<<SPACE>>), Str(textR), Str(Quoted(textR)),
   Str(<<"hello">>), Str(<<"see", SPACE>> \o textR), Str(<<"5">>), objR,
   Arr(<<>>), Arr(<<Null>>), Num("5")}

Envelope(res, sources) ==
  Obj(Opt(<<"result">>, res) \o <<Prop(<<"sources">>, Arr(sources))>>)

EnvelopeInputs ==
  {Envelope(res, srcs) : res \in ResultSet, srcs \in SourceLists}
  \cup {Obj(<<Prop(<<"result">>, res)>>) : res \in ResultSet \ {Undef}}
  \cup {Obj(<<Prop(<<"result">>, Str(<<>>)), Prop(<<"sources">>, Str(textA))>>)}

\* Inputs that are not envelopes: texts and decoded values
PlainInputs ==
  {Str(textA), Str(<<"hello">>), Str(<<"see", SPACE>> \o textA \o <<SPACE, "ok">>),
   Str(textA \o <<SPACE, "and", SPACE>> \o textItems),
   Str(<<"x", SPACE, LBRACK, "1", RBRACK>>), Str(Quoted(textA)),
   objA, objItems, Arr(<<Num("1"), Num("2")>>), Arr(<<objA>>), Arr(<<>>),
   Num("5"), Bool(TRUE), Null, Undef}

ToolInputs == EnvelopeInputs \cup PlainInputs

InitTool ==
  /\ NormOff /\ PipeOff /\ CallsOff /\ StartOff
  /\ tIn \in ToolInputs
  /\ tOut = Undef
  /\ tPhase = "input"

\* parseToolResponse(toolResp)
ParseTool ==
  /\ tPhase = "input"
  /\ tOut' = parseToolResponse(tIn)
  /\ tPhase' = "done"
  /\ UNCHANGED <<tIn, normVars, pipeVars, callVars, startVars>>

NextTool == ParseTool

SpecTool == InitTool /\ [][NextTool]_vars

(***************************************************************************)
(* Properties of parseToolResponse                                         *)
(***************************************************************************)
\* A decoded envelope: a mapping carrying result and/or sources
IsEnvelope(x) == x.t = "obj" /\ (HasOwn(x, <<"result">>) \/ HasOwn(x, <<"sources">>))

\* result is absent, null, an empty or blank string, or an array that prints blank
ResultIsEmpty(res) ==
  \/ IsNullish(res)
  \/ IsString(res) /\ IsBlank(res.v)
  \/ IsArray(res) /\ IsBlank(JSString(res))

\* The container a result or a document entry yields, or null
Yield(x) ==
  IF IsString(x) THEN unwrapThenRescue(x) ELSE IF IsObject(x) THEN x ELSE Null

\* The document entries of one source, a single string counting as a list of one
DocEntries(src) ==
  LET d == Get(src, <<"document">>)
  IN IF IsArray(d) THEN d.v
     ELSE IF IsString(d) /\ d.v /= <<>> THEN <<d>>
     ELSE IF IsObject(d) THEN <<d>>
     ELSE <<>>

RECURSIVE AllDocEntries(_)
\* Every document entry of an envelope, in source order then document order
AllDocEntries(sources) ==
  IF sources = <<>> THEN <<>>
  ELSE DocEntries(sources[1]) \o AllDocEntries(Tail(sources))

HoldsContainer(s) ==
  \E i \in 1..Len(s) : \E j \in i..Len(s) :
     s[i] \in {LBRACE, LBRACK} /\ s[j] \in {RBRACE, RBRACK}
     /\ JSONParse(SubSeq(s, i, j)).ok

\* C9: parseToolResponse returns none only when no JSON container can be located
\* anywhere in its input: an input that is or contains a mapping or sequence
\* gives a result, and a decoded mapping or sequence that is not an envelope is
\* returned unchanged.
C9_NoneOnlyWithoutContainer ==
  tPhase = "done" =>
    /\ (IsObject(tIn) \/ (IsString(tIn) /\ HoldsContainer(tIn.v))) => tOut /= Null
    /\ (IsObject(tIn) /\ ~IsEnvelope(tIn)) => tOut = tIn

(***************************************************************************)
(* The handler's processing of an upstream body (router.js 138-149),       *)
(* applied to bounded bodies and route paths                               *)
(***************************************************************************)
MaxWrap == 6

RECURSIVE Wrap(_, _)
\* A text encoded as a JSON string k times
Wrap(text, k) == IF k = 0 THEN text ELSE Quoted(Wrap(text, k - 1))

objBookmarks ==
  Obj(<<Prop(<<"items">>, Arr(<<rowA, fragT>>)), Prop(<<"next_cursor">>, S1("5"))>>)
textBookmarks == JSONStringify(objBookmarks)
arrOne == Arr(<<Num("1")>>)

pathSearch == <<SLASH, "search", HYPHEN, "bookmarks">>
pathLists == <<SLASH, "get", HYPHEN, "lists">>
pathTool == <<SLASH, "tool_", "Search", UNDERSCORE, "Bookmarks", "_post">>
PipePaths == {pathSearch, pathLists, pathTool}

OpenTag == <<LT>> \o DetailsWord \o <<GT>>
CloseTag == <<LT, SLASH>> \o DetailsWord \o <<GT>>
textKV ==
  <<"Title", COLON, SPACE, "Hello", NEWLINE,
    "Tags", COLON, SPACE, "a", COMMA, SPACE, "b", COMMA, SPACE, "c", NEWLINE,
    "Next", SPACE, "cursor", COLON, SPACE, APOSTROPHE, "7", APOSTROPHE>>

\* <det<details>x</details>ails>secret</details>: a block whose opening tag is
\* split by another block
textSplitBlock ==
  <<LT, "d", "e", "t">> \o OpenTag \o <<"x">> \o CloseTag
  \o <<"a", "i", "l", "s", GT, "secret">> \o CloseTag
\* <DETAILS open>x</Details>{"a":1}
textUpperBlock ==
  <<LT, "D", "E", "T", "A", "I", "L", "S", SPACE, "open", GT, "x", LT, SLASH,
    "D", "e", "t", "a", "i", "l", "s", GT>> \o textA

WrappedInputs ==
  {[kind |-> "wrapped", val |-> c, k |-> k] : c \in {objA, arrOne, Obj(<<>>)}, k \in 0..MaxWrap}

PipeDocSet == {Str(textA), Str(textBookmarks), Str(textBroken), Str(Quoted(textA))}
PipeDocLists == UNION {[1..n -> PipeDocSet] : n \in 0..MaxDocs}
PipeEnvelopes ==
  {Envelope(res, <<Source(l)>>) :
     res \in {Undef, Null, Str(<<>>), Str(textR)}, l \in PipeDocLists}
  \cup {Envelope(Str(<<>>), <<Source(<<Str(textBroken)>>), Source(<<Str(textBookmarks)>>)>>)}
EnvelopeBodies == {[kind |-> "envelope", val |-> e, k |-> 0] : e \in PipeEnvelopes}

TextInputs ==
  {[kind |-> "text", val |-> Str(t), k |-> 0] :
     t \in {textKV, <<"hello">>, <<>>,
            OpenTag \o textR \o CloseTag \o textA,
            <<"see", SPACE>> \o textA \o <<SPACE, "ok">>,
            textSplitBlock, textUpperBlock}}

PipeInputs == WrappedInputs \cup EnvelopeBodies \cup TextInputs

\* The text upstream sends for an input
BodyOf(in) ==
  CASE in.kind = "wrapped" -> Str(Wrap(JSONStringify(in.val), in.k))
    [] in.kind = "envelope" -> Str(JSONStringify(in.val))
    [] OTHER -> in.val

InitPipe ==
  /\ NormOff /\ ToolOff /\ CallsOff /\ StartOff
  /\ pIn \in PipeInputs
  /\ pPath \in PipePaths
  /\ pBody = BodyOf(pIn)
  /\ pClean = Undef
  /\ pParsed = Undef
  /\ pPayload = Undef
  /\ pStage = "body"

\* stripDebugBlocks, parseToolResponse, the input2JSON fallback and
\* normalizeToolPayload, as the handler runs them on the body it has read
ProcessBody ==
  /\ pStage = "body"
  /\ pClean' = stripDebugBlocks(pBody)
  /\ pParsed' = extractPayload(pClean')
  /\ pPayload' = normalizeToolPayload(pParsed', pPath)
  /\ pStage' = "done"
  /\ UNCHANGED <<pIn, pPath, pBody, normVars, toolVars, callVars, startVars>>

NextPipe == ProcessBody

SpecPipe == InitPipe /\ [][NextPipe]_vars

(***************************************************************************)
(* Properties of the processing of a body                                  *)
(***************************************************************************)
\* The positions of the string documents of an envelope that yield a container
StringHits(docs) == {i \in 1..Len(docs) : IsString(docs[i]) /\ IsObject(Yield(docs[i]))}

\* C3: when the body is the text of an envelope whose result is empty and whose
\* payload is a string under sources[].document[*], the handler extracts that
\* payload: it answers with the payload of the document, normalized when the
\* path or the payload's items qualify, and not with the envelope.
C3_EnvelopeBodyYieldsDocument ==
  (pStage = "done" /\ pIn.kind = "envelope") =>
    LET srcs == Get(pIn.val, <<"sources">>)
        docs == AllDocEntries(IF IsArray(srcs) THEN srcs.v ELSE <<>>)
    IN (ResultIsEmpty(Get(pIn.val, <<"result">>)) /\ StringHits(docs) /= {}) =>
         /\ pParsed = Yield(docs[Min(StringHits(docs))])
         /\ pPayload = normalizeToolPayload(Yield(docs[Min(StringHits(docs))]), pPath)
         /\ pParsed /= pIn.val

\* s holds a complete block: an opening tag <details ...>, later a closing tag
HasDebugBlock(s) ==
  \E p \in 1..Len(s) : \E q \in (p + 8)..Len(s) : \E r \in (q + 1)..Len(s) :
     /\ s[p] = LT /\ WordAt(s, p + 1)
     /\ s[q] = GT /\ (\A i \in (p + 8)..(q - 1) : s[i] /= GT)
     /\ CloseAt(s, r)

RECURSIVE TextsOf(_)
\* The texts of a value: its strings and the keys and strings inside it
TextsOf(x) ==
  CASE x.t = "str" -> {x.v}
    [] x.t = "arr" -> UNION {TextsOf(x.v[i]) : i \in 1..Len(x.v)}
    [] x.t = "obj" -> UNION {{x.v[i].k} \cup TextsOf(x.v[i].x) : i \in 1..Len(x.v)}
    [] OTHER -> {}

\* C11: for every upstream body, the text handed to extraction after stripping,
\* and the payload answered, hold no complete <details ...> ... </details> block.
C11_NoDebugBlockAfterStrip ==
  pStage = "done" =>
    /\ ~HasDebugBlock(pClean.v)
    /\ \A t \in TextsOf(pPayload) : ~HasDebugBlock(t)

\* C12: for the free text of the zero-indent lines Title: Hello, Tags: a, b, c
\* and Next cursor: '7', input2JSON returns exactly one item holding both fields
\* under the lower-case keys title ("Hello") and tags (the list a, b, c),
\* together with cursor "7" and hasMore true.
C12_FreeTextExample ==
  (pStage = "done" /\ pBody = Str(textKV)) =>
    /\ pParsed = input2JSON(pClean)
    /\ pParsed =
         Obj(<<Prop(<<"items">>,
                    Arr(<<Obj(<<Prop(<<"title">>, S1("Hello")),
                                Prop(<<"tags">>, Arr(<<S1("a"), S1("b"), S1("c")>>))>>)>>)),
               Prop(<<"cursor">>, S1("7")),
               Prop(<<"hasMore">>, Bool(TRUE))>>)

\* What input2JSON makes of a text it takes as plain text: its key/value
\* blocks, else the text under the key text
AsPlainText(t) == input2JSONText([parsed |-> Null, text |-> t])

\* C10: for a body that is a container encoded as a JSON string k times,
\* extraction (parseToolResponse on the text, then input2JSON when that yields
\* nothing) returns the container for every k from 1 to 5; for larger k the
\* unwrap loop stops after 5 parse attempts and the layer it stopped at is
\* treated as plain text.
C10_UnwrapUpToFiveLayers ==
  (pStage = "done" /\ pIn.kind = "wrapped" /\ pIn.k >= 1) =>
    IF pIn.k <= maxDepth THEN pParsed = pIn.val
    ELSE pParsed = AsPlainText(Str(Wrap(JSONStringify(pIn.val), pIn.k - maxDepth)))

(***************************************************************************)
(* The route handler (router.js 103-165) serving concurrent calls          *)
(***************************************************************************)
FETCH_TIMEOUT_MS == 20000

NumCalls == 2
\* The clock advances in steps of TickMs up to MaxClock
TickMs == 10000
MaxClock == 30000

Calls == 1..NumCalls
\* The route each call arrives on
RouteOf(c) == IF c % 2 = 1 THEN pathSearch ELSE pathLists
UpstreamStatuses == {200, 504}
envelopeText == JSONStringify(Envelope(Str(<<>>), <<Source(<<Str(textA)>>)>>))
UpstreamBodies == {Str(textA), Str(envelopeText)}

RECURSIVE DecText(_)
\* String(n) for a natural number
DecText(n) == IF n < 10 THEN <<Digits[n + 1]>> ELSE DecText(n \div 10) \o <<Digits[(n % 10) + 1]>>

\* { detail: `Upstream timeout on ${path} after ${duration}ms` }
timeoutDetail(path, duration) ==
  Obj(<<Prop(<<"detail">>,
             Str(<<"Upstream", SPACE, "timeout", SPACE, "on", SPACE>> \o path
                 \o <<SPACE, "after", SPACE>> \o DecText(duration) \o <<"ms">>))>>)

\* { detail: `Shim failed on ${path}` }
failedDetail(path) ==
  Obj(<<Prop(<<"detail">>, Str(<<"Shim", SPACE, "failed", SPACE, "on", SPACE>> \o path))>>)

\* res.status(status).json(body)
Response(status, body) == [status |-> status, body |-> body]

Init ==
  /\ NormOff /\ ToolOff /\ PipeOff /\ StartOff
  /\ now = 0
  /\ pc = [c \in Calls |-> "idle"]
  /\ timer = [c \in Calls |-> "none"]
  /\ startedAt = [c \in Calls |-> 0]
  /\ callPath = [c \in Calls |-> <<>>]
  /\ upStatus = [c \in Calls |-> 0]
  /\ responses = [c \in Calls |-> <<>>]
  /\ cause = [c \in Calls |-> "none"]
  /\ outbound = [c \in Calls |-> 0]

\* A call arrives on a registered route: startedAt is taken, the upstream URL is
\* built, the timer is armed and fetch is called.  When new URL(...) throws, the
\* catch block answers 502 before a timer exists.
Receive(c) ==
  /\ pc[c] = "idle"
  /\ \E urlOk \in BOOLEAN :
       /\ startedAt' = [startedAt EXCEPT ![c] = now]
       /\ callPath' = [callPath EXCEPT ![c] = RouteOf(c)]
       /\ IF urlOk
          THEN /\ timer' = [timer EXCEPT ![c] = "pending"]
               /\ outbound' = [outbound EXCEPT ![c] = @ + 1]
               /\ pc' = [pc EXCEPT ![c] = "fetching"]
               /\ UNCHANGED <<responses, cause>>
          ELSE /\ responses' = [responses EXCEPT ![c] = Append(@, Response(502, failedDetail(RouteOf(c))))]
               /\ cause' = [cause EXCEPT ![c] = "build"]
               /\ pc' = [pc EXCEPT ![c] = "done"]
               /\ UNCHANGED <<timer, outbound>>
  /\ UNCHANGED <<now, upStatus, normVars, toolVars, pipeVars, startVars>>

\* await fetch(...) resolves: the status line and headers have arrived
FetchResolved(c) ==
  /\ pc[c] = "fetching"
  /\ \E st \in UpstreamStatuses : upStatus' = [upStatus EXCEPT ![c] = st]
  /\ pc' = [pc EXCEPT ![c] = "reading"]
  /\ UNCHANGED <<now, timer, startedAt, callPath, responses, cause, outbound,
                 normVars, toolVars, pipeVars, startVars>>

\* await r.text() resolves: the timer is cancelled, the body is processed and
\* the payload is sent with the upstream status
BodyRead(c) ==
  /\ pc[c] = "reading"
  /\ \E bodyStr \in UpstreamBodies :
       responses' = [responses EXCEPT ![c] =
                       Append(@, Response(upStatus[c], routePayload(bodyStr, callPath[c])))]
  /\ timer' = [timer EXCEPT ![c] = "cancelled"]
  /\ cause' = [cause EXCEPT ![c] = "ok"]
  /\ pc' = [pc EXCEPT ![c] = "done"]
  /\ UNCHANGED <<now, startedAt, callPath, upStatus, outbound, normVars, toolVars, pipeVars, startVars>>

\* A handler that calls fetch again after a failure
UpstreamFailedRetries(c) ==
  /\ pc[c] \in {"fetching", "reading"}
  /\ outbound[c] < 2
  /\ outbound' = [outbound EXCEPT ![c] = @ + 1]
  /\ pc' = [pc EXCEPT ![c] = "fetching"]
  /\ UNCHANGED <<now, timer, startedAt, callPath, upStatus, responses, cause,
                 normVars, toolVars, pipeVars, startVars>>

\* fetch or r.text() rejects with an error other than AbortError: the catch
\* block answers 502; t.cancel() is not reached
UpstreamFailed(c) ==
  /\ pc[c] \in {"fetching", "reading"}
  /\ responses' = [responses EXCEPT ![c] = Append(@, Response(502, failedDetail(callPath[c])))]
  /\ cause' = [cause EXCEPT ![c] = "upstream"]
  /\ pc' = [pc EXCEPT ![c] = "done"]
  /\ UNCHANGED <<now, timer, startedAt, callPath, upStatus, outbound, normVars, toolVars, pipeVars, startVars>>

\* A timer callback that rejects whatever state the call is in
TimerFiredAnyState(c) ==
  /\ timer[c] = "pending"
  /\ now >= startedAt[c] + FETCH_TIMEOUT_MS
  /\ timer' = [timer EXCEPT ![c] = "fired"]
  /\ pc' = [pc EXCEPT ![c] = "aborted"]
  /\ cause' = [cause EXCEPT ![c] = "timeout"]
  /\ UNCHANGED <<now, startedAt, callPath, upStatus, responses, outbound,
                 normVars, toolVars, pipeVars, startVars>>

\* The callback of setTimeout runs: ctrl.abort().  A call still awaiting fetch
\* or r.text() is rejected with AbortError; for a finished call nothing listens.
TimerFired(c) ==
  /\ timer[c] = "pending"
  /\ now >= startedAt[c] + FETCH_TIMEOUT_MS
  /\ timer' = [timer EXCEPT ![c] = "fired"]
  /\ IF pc[c] \in {"fetching", "reading"}
     THEN /\ pc' = [pc EXCEPT ![c] = "aborted"]
          /\ cause' = [cause EXCEPT ![c] = "timeout"]
     ELSE UNCHANGED <<pc, cause>>
  /\ UNCHANGED <<now, startedAt, callPath, upStatus, responses, outbound,
                 normVars, toolVars, pipeVars, startVars>>

\* A catch block that does not tell AbortError from other errors
AbortCaughtAs502(c) ==
  /\ pc[c] = "aborted"
  /\ responses' = [responses EXCEPT ![c] = Append(@, Response(502, failedDetail(callPath[c])))]
  /\ pc' = [pc EXCEPT ![c] = "done"]
  /\ UNCHANGED <<now, timer, startedAt, callPath, upStatus, cause, outbound,
                 normVars, toolVars, pipeVars, startVars>>

\* The catch block for e.name === "AbortError": 504 with the elapsed duration
AbortCaught(c) ==
  /\ pc[c] = "aborted"
  /\ responses' = [responses EXCEPT ![c] =
                     Append(@, Response(504, timeoutDetail(callPath[c], now - startedAt[c])))]
  /\ pc' = [pc EXCEPT ![c] = "done"]
  /\ UNCHANGED <<now, timer, startedAt, callPath, upStatus, cause, outbound,
                 normVars, toolVars, pipeVars, startVars>>

\* Time passes
Tick ==
  /\ now + TickMs <= MaxClock
  /\ now' = now + TickMs
  /\ UNCHANGED <<pc, timer, startedAt, callPath, upStatus, responses, cause, outbound,
                 normVars, toolVars, pipeVars, startVars>>

Next ==
  \/ \E c \in Calls : Receive(c)
  \/ \E c \in Calls : FetchResolved(c)
  \/ \E c \in Calls : BodyRead(c)
  \/ \E c \in Calls : UpstreamFailed(c)
  \/ \E c \in Calls : TimerFired(c)
  \/ \E c \in Calls : AbortCaught(c)
  \/ Tick

Spec == Init /\ [][Next]_vars

\* The rejected await is followed by the catch block: a pending continuation runs
FairSpec == Spec /\ \A c \in Calls : WF_vars(AbortCaught(c))

(***************************************************************************)
(* Properties of the route handler                                         *)
(***************************************************************************)
\* The timer of call c fired while its fetch or body read was outstanding
TimedOut(c) == cause[c] = "timeout"

\* The fields of the handling of call d
CallState(d) ==
  <<pc[d], timer[d], startedAt[d], callPath[d], upStatus[d], responses[d], cause[d], outbound[d]>>

\* C1: when the timer of a call fires before fetch and the body read have
\* completed, the call is aborted and the caller gets exactly one response: 504
\* with a message carrying the elapsed duration; no second response is sent for
\* the call, whatever upstream does and however the events interleave.
C1_TimeoutAnswers504Once ==
  /\ [](\A c \in Calls :
          TimedOut(c) =>
            /\ timer[c] = "fired"
            /\ pc[c] \in {"aborted", "done"}
            /\ Len(responses[c]) <= 1
            /\ pc[c] = "done" => Len(responses[c]) = 1 /\ responses[c][1].status = 504)
  /\ [][\A c \in Calls :
          (TimedOut(c) /\ responses'[c] /= responses[c]) =>
            /\ now - startedAt[c] >= FETCH_TIMEOUT_MS
            /\ responses'[c] =
                 <<Response(504, timeoutDetail(callPath[c], now - startedAt[c]))>>]_vars
  /\ \A c \in Calls : TimedOut(c) ~> (pc[c] = "done" /\ Len(responses[c]) = 1)

\* C1 witness: call 1 timed out while its body was being read and was answered
\* 504 after 20000 ms; call 2 failed upstream, its timer fired later and it
\* still has the one response
C1_Witness ==
  /\ TimedOut(1)
  /\ upStatus[1] = 200
  /\ responses[1] = <<Response(504, timeoutDetail(pathSearch, FETCH_TIMEOUT_MS))>>
  /\ cause[2] = "upstream"
  /\ timer[2] = "fired"
  /\ Len(responses[2]) = 1

\* C2: the status answered is the upstream status when fetch and the body read
\* completed; 504 when the call was aborted by its timer; 502 for a failure to
\* build the URL or a failure of fetch or of the body read; and a step that
\* answers one call changes nothing of any other call.
C2_StatusByOutcome ==
  /\ [](\A c \in Calls :
          Len(responses[c]) >= 1 =>
            /\ cause[c] \in {"ok", "timeout", "upstream", "build"}
            /\ cause[c] = "ok" => responses[c][1].status = upStatus[c]
            /\ cause[c] = "timeout" => responses[c][1].status = 504
            /\ cause[c] \in {"upstream", "build"} => responses[c][1].status = 502)
  /\ [][\A c \in Calls :
          responses'[c] /= responses[c] =>
            \A d \in Calls \ {c} : CallState(d)' = CallState(d)]_vars

\* C2 witness: call 1 mirrors an upstream 504 while call 2, which failed
\* upstream, was answered 502
C2_Witness ==
  /\ cause[1] = "ok"
  /\ upStatus[1] = 504
  /\ responses[1] = <<Response(504, normalizeKarakeepPayload(objA))>>
  /\ cause[2] = "upstream"
  /\ responses[2] = <<Response(502, failedDetail(pathLists))>>

\* C15: for every inbound call the handler performs exactly one outbound
\* call: it never calls fetch again after a failure or a timeout, and it never
\* answers the caller without having called fetch.
C15_ExactlyOneOutbound ==
  \A c \in Calls :
     /\ outbound[c] <= 1
     /\ Len(responses[c]) >= 1 => outbound[c] = 1

\* C15 as the code has it: at most one outbound call per inbound call, made
\* when the call arrives and never again; every answered call has made it
\* except one whose upstream URL could not be built, which is answered 502.
C15_OneOutboundUnlessBuildFails ==
  /\ [](\A c \in Calls :
          /\ outbound[c] <= 1
          /\ Len(responses[c]) >= 1 =>
               /\ outbound[c] = 1 <=> cause[c] /= "build"
               /\ cause[c] = "build" => responses[c] = <<Response(502, failedDetail(RouteOf(c)))>>)
  /\ [][\A c \in Calls : outbound'[c] /= outbound[c] => pc[c] = "idle"]_vars

\* C15 witness: call 1 timed out and was answered after its one outbound call;
\* call 2 was answered 502 without one because its URL could not be built
C15_Witness ==
  /\ TimedOut(1) /\ Len(responses[1]) = 1 /\ outbound[1] = 1
  /\ cause[2] = "build" /\ Len(responses[2]) = 1 /\ outbound[2] = 0

\* C16: once the response of a call has been sent, whichever way the call
\* ended, its timer is no longer pending: it has fired or has been cancelled.
C16_NoPendingTimerAfterResponse ==
  \A c \in Calls : Len(responses[c]) >= 1 => timer[c] /= "pending"

(***************************************************************************)
(* Startup: server.js 1-26, openapi.js fetchOpenAPIOnce and                *)
(* fetchOpenAPIWithRetry, health.js                                        *)
(***************************************************************************)
MaxAttempts == 3
MaxProbes == 2

\* Descriptions upstream may serve
specGood ==
  Obj(<<Prop(<<"paths">>,
             Obj(<<Prop(pathSearch, Obj(<<Prop(<<"post">>, Obj(<<>>))>>)),
                   Prop(pathLists, Obj(<<Prop(<<"GET">>, Obj(<<>>)),
                                         Prop(<<"delete">>, Obj(<<>>))>>))>>))>>)
specNullPath == Obj(<<Prop(<<"paths">>, Obj(<<Prop(pathSearch, Null)>>))>>)
SpecTexts ==
  {JSONStringify(specGood), JSONStringify(specNullPath), textA, textBroken, <<"null">>, <<"5">>}

\* markOpenAPILoaded(ok) stores !!ok; isHealthy() reads it back
isHealthy == openapiLoaded

\* healthHandler: the status it answers
healthHandler == IF ~isHealthy THEN 503 ELSE 200

\* The routes of one path object: the verbs that lower-case to post or get
routesOfPath(path, pathObj) ==
  {<<Lower(OwnProps(pathObj)[j].k[1]), path>> :
     j \in {n \in 1..Len(OwnProps(pathObj)) :
              Len(OwnProps(pathObj)[n].k) = 1
              /\ Lower(OwnProps(pathObj)[n].k[1]) \in {"post", "get"}}}

\* buildRouterFromOpenAPI(spec): [ok, routes]; it throws for a description
\* without a paths object and when Object.keys meets a null path object
buildRouterFromOpenAPI(spec) ==
  IF ~Truthy(spec) \/ ~Truthy(Get(spec, <<"paths">>)) \/ ~IsObject(Get(spec, <<"paths">>))
  THEN [ok |-> FALSE, routes |-> {}]
  ELSE Let1(OwnProps(Get(spec, <<"paths">>)),
            LAMBDA paths :
              IF \E i \in 1..Len(paths) : IsNullish(paths[i].x)
              THEN [ok |-> FALSE, routes |-> {}]
              ELSE [ok |-> TRUE,
                    routes |-> UNION {routesOfPath(paths[i].k, paths[i].x) :
                                        i \in 1..Len(paths)}])

InitStart ==
  /\ NormOff /\ ToolOff /\ PipeOff /\ CallsOff
  /\ openapiLoaded = FALSE
  /\ cachedSpec = Null
  /\ bootPc = "fetching"
  /\ attempts = 1
  /\ routes = {}
  /\ listening = FALSE
  /\ everLoaded = FALSE
  /\ probes = <<>>

\* fetchOpenAPIOnce fails: the catch block marks not loaded, the retry loop
\* starts its wait
AttemptFails ==
  /\ openapiLoaded' = FALSE
  /\ bootPc' = "waiting"
  /\ UNCHANGED everLoaded

\* A catch block that leaves the flag as it is
AttemptSettledKeepFlag ==
  /\ bootPc = "fetching"
  /\ \E kind \in {"reply", "network", "timeout"}, status \in {200, 503}, txt \in SpecTexts :
       IF kind /= "reply" \/ status /= 200 \/ ~JSONParse(txt).ok
       THEN bootPc' = "waiting" /\ UNCHANGED <<openapiLoaded, cachedSpec, everLoaded>>
       ELSE /\ cachedSpec' = JSONParse(txt).val
            /\ openapiLoaded' = TRUE
            /\ IF JSONParse(txt).val = Null
               THEN bootPc' = "waiting" /\ UNCHANGED everLoaded
               ELSE bootPc' = "resolved" /\ everLoaded' = TRUE
  /\ UNCHANGED <<attempts, routes, listening, probes, normVars, toolVars, pipeVars, callVars>>

\* One call of fetchOpenAPIOnce settles.  The fetch may be rejected (network
\* failure, or the abort of its timer), answer a status that is not ok, or a
\* text that does not parse; a parsed description is cached and the flag set,
\* and reading spec.info of a null description then throws into the catch block.
AttemptSettled ==
  /\ bootPc = "fetching"
  /\ \E kind \in {"reply", "network", "timeout"}, status \in {200, 503}, txt \in SpecTexts :
       IF kind /= "reply" \/ status /= 200 \/ ~JSONParse(txt).ok
       THEN AttemptFails /\ UNCHANGED cachedSpec
       ELSE /\ cachedSpec' = JSONParse(txt).val
            /\ IF JSONParse(txt).val = Null
               THEN AttemptFails
               ELSE /\ openapiLoaded' = TRUE
                    /\ everLoaded' = TRUE
                    /\ bootPc' = "resolved"
  /\ UNCHANGED <<attempts, routes, listening, probes, normVars, toolVars, pipeVars, callVars>>

\* The wait of OPENAPI_RETRY_MS ends and the loop calls fetchOpenAPIOnce again
RetryElapsed ==
  /\ bootPc = "waiting"
  /\ attempts < MaxAttempts
  /\ attempts' = attempts + 1
  /\ bootPc' = "fetching"
  /\ UNCHANGED <<openapiLoaded, cachedSpec, routes, listening, everLoaded, probes,
                 normVars, toolVars, pipeVars, callVars>>

\* The bootstrap continues after await fetchOpenAPIWithRetry(): the router is
\* built and mounted and app.listen is called; when buildRouterFromOpenAPI
\* throws, the bootstrap ends there
Mount ==
  /\ bootPc = "resolved"
  /\ IF buildRouterFromOpenAPI(cachedSpec).ok
     THEN /\ routes' = buildRouterFromOpenAPI(cachedSpec).routes
          /\ listening' = TRUE
          /\ bootPc' = "listening"
     ELSE /\ bootPc' = "crashed"
          /\ UNCHANGED <<routes, listening>>
  /\ UNCHANGED <<openapiLoaded, cachedSpec, attempts, everLoaded, probes,
                 normVars, toolVars, pipeVars, callVars>>

\* What a client gets: "refused" while nothing listens, else the answer of
\* healthHandler, or of the router for a route request
Answer(kind) ==
  IF ~listening THEN "refused"
  ELSE IF kind = "health" THEN (IF healthHandler = 200 THEN "ok" ELSE "starting")
  ELSE IF <<"post", pathSearch>> \in routes THEN "dispatched" ELSE "notfound"

\* A client requests GET /health or POST /search-bookmarks
Probe ==
  /\ Len(probes) < MaxProbes
  /\ \E kind \in {"health", "route"} :
       probes' = Append(probes, [kind |-> kind, reply |-> Answer(kind),
                                 discovered |-> everLoaded])
  /\ UNCHANGED <<openapiLoaded, cachedSpec, bootPc, attempts, routes, listening, everLoaded,
                 normVars, toolVars, pipeVars, callVars>>

NextStart == AttemptSettled \/ RetryElapsed \/ Mount \/ Probe

SpecStart == InitStart /\ [][NextStart]_vars

(***************************************************************************)
(* Properties of startup                                                   *)
(***************************************************************************)
\* C13: in every state the health signal is ready exactly when some fetch of
\* the description has succeeded, and dynamic routes exist only after that
\* success: through failed attempts health stays not ready and no route
\* exists, and once ready the signal never goes back to not ready.
C13_ReadyIffDiscovered ==
  /\ [](isHealthy <=> everLoaded)
  /\ []((routes /= {} \/ bootPc = "listening") => everLoaded)
  /\ [](\A i \in 1..Len(probes) :
          /\ probes[i].reply = "ok" => probes[i].discovered
          /\ probes[i].reply = "dispatched" => probes[i].discovered)
  /\ [][isHealthy => isHealthy']_vars

\* C13 witness: two attempts failed, the third succeeded, the routes are
\* mounted and a health request was answered ready
C13_Witness ==
  /\ attempts = 3
  /\ isHealthy
  /\ routes = {<<"post", pathSearch>>, <<"get", pathLists>>}
  /\ probes = <<[kind |-> "health", reply |-> "ok", discovered |-> TRUE]>>

\* C14: while discovery has not succeeded, a request for the health signal is
\* accepted and answered not ready, and only requests for dynamic routes are
\* not served.
C14_HealthServedDuringDiscovery ==
  \A i \in 1..Len(probes) :
     ~probes[i].discovered =>
       /\ probes[i].kind = "health" => probes[i].reply = "starting"
       /\ probes[i].kind = "route" => probes[i].reply \in {"refused", "notfound"}

====
